---- MODULE Spec2Model ----
(***************************************************************************)
(* Lavados semanales: the wash-record store (db.py), the submission        *)
(* workflow, the deletions and the reconciliation views (app.py).          *)
(*                                                                         *)
(* Every browser session runs the Streamlit script top to bottom on each   *)
(* user action.  A handler is one action of the model, except where it     *)
(* makes several calls on shared resources (the database, the photo tree): *)
(* there it is split at those calls, because other sessions run between    *)
(* them.                                                                   *)
(***************************************************************************)
EXTENDS Integers, Sequences, FiniteSets, TLC

\* ------------------------------------------------------------------ bounds
\* uuid4 values handed out in one behaviour (number of records ever built)
MaxId == 2
\* number of distinct four-photo sets a user can pick uploads from
MaxRoll == 2

\* ------------------------------------------------------------- fixed config
\* FOTO_SLOTS, in the order the handler iterates them
FOTO_SLOTS == <<"frente", "atras", "lado", "cabina">>

SlotSet == {FOTO_SLOTS[i] : i \in 1..Len(FOTO_SLOTS)}

\* CONFIG["segmentos"] ids
SEGMENTOS == <<"hinos", "graneles", "otros">>

\* CONFIG["cedis"] ids (two of the ten depots)
CEDIS_IDS == <<"cartago", "alajuela">>

\* CONFIG["supervisores"], in list order (four of the sixteen entries;
\* sup-erick-valerin is listed for cartago and again for alajuela)
supervisores ==
  << [id |-> "sup-miguel-gomez", nombre |-> "Miguel Gomez", cedis |-> "cartago", segmento |-> "hinos"],
     [id |-> "sup-erick-valerin", nombre |-> "Erick Valerin", cedis |-> "cartago", segmento |-> "graneles"],
     [id |-> "sup-erick-valerin", nombre |-> "Erick Valerin", cedis |-> "alajuela", segmento |-> "graneles"],
     [id |-> "sup-cristian-bolanos", nombre |-> "Cristian Bolanos", cedis |-> "alajuela", segmento |-> "graneles"] >>

\* sup_by_id = {s["id"]: s for s in CONFIG["supervisores"]}: for an id listed
\* twice the later entry is the one kept
sup_by_id ==
  [ sid \in { supervisores[i].id : i \in 1..Len(supervisores) } |->
      supervisores[CHOOSE i \in 1..Len(supervisores) :
                     /\ supervisores[i].id = sid
                     /\ \A j \in 1..Len(supervisores) : supervisores[j].id = sid => j <= i] ]

\* sup_by_id.get(x) or {} : the empty dict reads as empty strings
NoSup == [id |-> "", nombre |-> "", cedis |-> "", segmento |-> ""]

sup_get(sid) == IF sid \in DOMAIN sup_by_id THEN sup_by_id[sid] ELSE NoSup

\* CONFIG["asignaciones"] is empty in the source
asignaciones == {}

\* The roster load_catalog returns (one entry per (id, cedis)); the data
\* files are not written by the application, so it is the same on every run.
CATALOGO ==
  { [id |-> "A1", cedis |-> "alajuela", segmento |-> "graneles", tipo |-> "Granel"],
    [id |-> "H1", cedis |-> "alajuela", segmento |-> "hinos",    tipo |-> "Hino"],
    [id |-> "C1", cedis |-> "cartago",  segmento |-> "hinos",    tipo |-> "Hino"] }

\* The sessions and st.session_state["auth"] of each, after require_login
Sessions == {"s1", "s2", "s3"}

auth ==
  [ s \in Sessions |->
      CASE s = "s1" -> [username |-> "erick", name |-> "Erick", role |-> "supervisor",
                        supervisorId |-> "sup-erick-valerin"]
        [] s = "s2" -> [username |-> "cristian", name |-> "Cristian", role |-> "supervisor",
                        supervisorId |-> "sup-cristian-bolanos"]
        [] OTHER    -> [username |-> "admin", name |-> "Admin", role |-> "admin",
                        supervisorId |-> ""] ]

\* ------------------------------------------------------------ pure helpers
\* norm(): NFD, drop non-ascii, lower, strip -- on the strings of this model
norm(str) ==
  CASE str = "A1" -> "a1"
    [] str = "H1" -> "h1"
    [] str = "C1" -> "c1"
    [] str = "Alajuela" -> "alajuela"
    [] str = "Cartago" -> "cartago"
    [] str = "Granel" -> "granel"
    [] str = "Hinos" -> "hinos"
    [] str = "Cilindros" -> "cilindros"
    [] str = "Varios" -> "varios"
    [] OTHER -> str

\* safe_slug(): norm, then blanks and slashes to dashes (none occur here)
safe_slug(str) == norm(str)

\* the dates of the date picker: (ISO year, ISO week, ISO weekday)
Dates ==
  { [y |-> 2025, w |-> 9, d |-> 1], [y |-> 2025, w |-> 10, d |-> 3] }

\* iso_week_key(d): f"{y}-W{w:02d}"
iso_week_key(d) ==
  ToString(d.y) \o "-W" \o (IF d.w < 10 THEN "0" ELSE "") \o ToString(d.w)

\* WEEK / WEEK_CUR for each date of the picker
WEEK_of == [d \in Dates |-> iso_week_key(d)]

Weeks == {WEEK_of[d] : d \in Dates}

\* An uploaded file is its content: 0 is "no file" (None), a content c > 0 is
\* a picture, a content c < 0 is a file Pillow cannot decode.
NoFile == 0

\* hashlib.sha256(b).hexdigest(): injective on contents (collision resistant)
sha256_bytes(b) == <<"sha256", b>>

SlotIndex(k) == CHOOSE i \in 1..Len(FOTO_SLOTS) : FOTO_SLOTS[i] = k

\* Roll b is a set of four different pictures, one per slot
Roll(b) == [k \in SlotSet |-> Len(FOTO_SLOTS) * b + SlotIndex(k)]

PrevSlot(k) == FOTO_SLOTS[IF SlotIndex(k) = 1 THEN Len(FOTO_SLOTS) ELSE SlotIndex(k) - 1]

\* the slots in which an upload differs from its roll
PerturbSlots == {"cabina"}

\* an undecodable file
BadFile == -1

\* What a user uploads: a roll, or the first roll with one slot left empty,
\* filled with the picture of the slot before it, or filled with an
\* undecodable file.
UploadChoices ==
  {Roll(b) : b \in 0..(MaxRoll - 1)}
  \cup UNION { { [Roll(0) EXCEPT ![k] = v] : v \in { NoFile, Roll(0)[PrevSlot(k)], BadFile } } :
               k \in PerturbSlots }

\* What a user submits, <<unit, uploads>>: a unit of the catalog with any of
\* the uploads, or no unit with the first roll
FormChoices ==
  ({ u.id : u \in CATALOGO } \X UploadChoices) \cup { <<"", Roll(0)>> }

\* ------------------------------------------------------------------- state
VARIABLES
  store,       \* the committed rows of table lavados
  files,       \* the paths written under EVIDENCE_DIR
  now,         \* the wall clock, in seconds (Spec stays within one second)
  nextId,      \* the uuid4 values handed out so far
  pc,          \* per session: where its running handler stands
  sub,         \* per session: the locals of its running handler
  last,        \* the latest handler step: who, what was asked, what it answered
  everStored,  \* history: the hashes some committed row has held
  deleted,     \* history: the ids delete_lavado was called with
  srcs,        \* the content of the data files of SOURCES, in list order
  loaded,      \* what load_catalog() made of them
  listing,     \* what the latest get_lavados_week call returned to a db.py caller
  boot         \* the database being reachable, and per session the start of main

vars == <<store, files, now, nextId, pc, sub, last, everStored, deleted, srcs, loaded, listing, boot>>

\* --------------------------------------------------------------- db.py rows
\* datetime.now().isoformat(timespec="seconds"): a text without fraction or zone
isoformat(dt) == [sec |-> dt.sec, micro |-> 0, zone |-> ""]

\* datetime.datetime.utcnow() / datetime.now(): the clock as a datetime
datetime_now(clock) == [sec |-> clock, micro |-> 0]

\* _parse_ts: a non-empty text is parsed after dropping "Z" and the "+hh:mm"
\* zone; anything else gives utcnow().  A text with sec < 0 is the empty text.
parse_ts(ts_val, utcnow) ==
  IF ts_val.sec >= 0 THEN [sec |-> ts_val.sec, micro |-> ts_val.micro] ELSE utcnow

\* json.dumps / json.loads of a dict of strings
json_dumps(d) == <<"json", d>>

json_loads(js) == js[2]

\* (variant) save_lavado reading the photo paths under a key the payload lacks
LavadoRow_no_fotos(record, utcnow) ==
  [ id                |-> record.id,
    week              |-> record.week,
    cedis             |-> record.cedis,
    supervisor_id     |-> record.supervisorId,
    supervisor_nombre |-> record.supervisorNombre,
    unidad_id         |-> record.unidadId,
    unidad_label      |-> record.unidadLabel,
    segmento          |-> record.segmento,
    ts                |-> [sec |-> record.ts.sec, micro |-> record.ts.micro],
    created_by        |-> record.created_by,
    fotos_json        |-> <<"json", <<>>>>,
    foto_hashes_json  |-> <<"json", record.foto_hashes>> ]

\* Lavado(...) as save_lavado builds it from the payload
LavadoRow(record, utcnow) ==
  [ id                |-> record.id,
    week              |-> record.week,
    cedis             |-> record.cedis,
    supervisor_id     |-> record.supervisorId,
    supervisor_nombre |-> record.supervisorNombre,
    unidad_id         |-> record.unidadId,
    unidad_label      |-> record.unidadLabel,
    segmento          |-> record.segmento,
    ts                |-> parse_ts(record.ts, utcnow),
    created_by        |-> record.created_by,
    fotos_json        |-> json_dumps(record.fotos),
    foto_hashes_json  |-> json_dumps(record.foto_hashes) ]

\* the dict get_lavados_week builds from a row
RowDict(r) ==
  [ id               |-> r.id,
    week             |-> r.week,
    cedis            |-> r.cedis,
    supervisorId     |-> r.supervisor_id,
    supervisorNombre |-> r.supervisor_nombre,
    unidadId         |-> r.unidad_id,
    unidadLabel      |-> r.unidad_label,
    segmento         |-> r.segmento,
    fotos            |-> json_loads(r.fotos_json),
    foto_hashes      |-> json_loads(r.foto_hashes_json),
    ts               |-> isoformat(r.ts),
    created_by       |-> r.created_by ]

\* Lavado.ts.desc(): a is not before b
TsGE(a, b) == a.sec > b.sec \/ (a.sec = b.sec /\ a.micro >= b.micro)

\* (variant) get_lavados_week ordering by Lavado.ts.asc()
get_lavados_week_asc(st, week) ==
  LET rows == {r \in st : r.week = week}
      n    == Cardinality(rows)
  IN  { [i \in 1..n |-> RowDict(f[i])] :
          f \in { g \in [1..n -> rows] :
                    /\ \A i, j \in 1..n : i # j => g[i] # g[j]
                    /\ \A i, j \in 1..n : i < j => TsGE(g[j].ts, g[i].ts) } }

\* get_lavados_week(week): the rows of the week, latest first.  The order of
\* rows with equal ts is the database's choice, so this is the set of the
\* lists the call can return.
get_lavados_week(st, week) ==
  LET rows == {r \in st : r.week = week}
      n    == Cardinality(rows)
  IN  { [i \in 1..n |-> RowDict(f[i])] :
          f \in { g \in [1..n -> rows] :
                    /\ \A i, j \in 1..n : i # j => g[i] # g[j]
                    /\ \A i, j \in 1..n : i < j => TsGE(g[i].ts, g[j].ts) } }

\* (variant) photo_hashes_all reading the "frente" entry only
photo_hashes_frente(st) == { json_loads(r.foto_hashes_json)["frente"] : r \in st }

\* photo_hashes_all(): every truthy value of every row's foto_hashes_json
photo_hashes_all(st) ==
  UNION { { h \in { json_loads(js)[k] : k \in DOMAIN json_loads(js) } : h # "" } :
          js \in { r.foto_hashes_json : r \in st } }

\* save_lavado, first statement: delete(Lavado).where(week, cedis, unidad_id)

DeleteMatching(st, record) ==
  { r.id : r \in { x \in st : /\ x.week = record.week
                              /\ x.cedis = record.cedis
                              /\ x.unidad_id = record.unidadId } }

\* (variant) the table without its UniqueConstraint
UniqueOk_pk_only(st, row) == \A r \in st : r.id # row.id

\* UniqueConstraint("week", "cedis", "unidad_id") and the primary key id:
\* whether the table st admits the new row

UniqueOk(st, row) ==
  /\ \A r \in st : r.id # row.id
  /\ \A r \in st : ~(r.week = row.week /\ r.cedis = row.cedis /\ r.unidad_id = row.unidad_id)

\* (variant) delete_lavado deleting by the unit of the row with the id
delete_lavado_unit(st, lavado_id) ==
  { r \in st : \A x \in st : x.id = lavado_id => x.unidad_id # r.unidad_id }

\* delete_lavado: delete(Lavado).where(Lavado.id == lavado_id)

delete_lavado(st, lavado_id) == { r \in st : r.id # lavado_id }

\* ----------------------------------------------------------- app.py helpers
\* the header widgets of a supervisor session: CEDIS and SUP come from the
\* supervisor entry of the logged-in user
CEDIS_of(s) == sup_get(auth[s].supervisorId).cedis

SUP_of(s) == sup_get(auth[s].supervisorId).id

\* (variant) unidades_visibles without the depot and supervisor filters
unidades_visibles_any_cedis(s, SEG) ==
  { u \in CATALOGO : SEG = "all" \/ u.segmento = SEG }

\* unidades_visibles(): the units offered in the capture form

unidades_visibles(s, SEG) ==
  IF SUP_of(s) = "" /\ auth[s].role = "supervisor" THEN {}
  ELSE
    LET asignadas_ids == { a.unidadId : a \in { x \in asignaciones : x.supervisorId = SUP_of(s) } }
        sup_seg == sup_get(SUP_of(s)).segmento
        pool0 == IF asignadas_ids # {}
                 THEN { u \in CATALOGO : u.cedis = CEDIS_of(s) /\ u.id \in asignadas_ids }
                 ELSE { u \in { x \in CATALOGO : x.cedis = CEDIS_of(s) } :
                          sup_seg = "" \/ u.segmento = sup_seg }
    IN  { u \in pool0 : SEG = "all" \/ u.segmento = SEG }

\* the Segmento radio
SegChoices == {"all"} \cup {SEGMENTOS[i] : i \in 1..Len(SEGMENTOS)}

\* the options of the "Unidad" selectbox, [""] + unidad_ids, over the values
\* of the Segmento radio
unidad_options ==
  [ s \in Sessions |->
      {""} \cup UNION { { u.id : u \in unidades_visibles(s, SEG) } : SEG \in SegChoices } ]

\* the loop over FOTO_SLOTS of the handler: dup_local after the first n slots
RECURSIVE dup_local_upto(_, _)
dup_local_upto(uploads, n) ==
  IF n = 0 THEN FALSE
  ELSE \/ dup_local_upto(uploads, n - 1)
       \/ sha256_bytes(uploads[FOTO_SLOTS[n]]) \in
            { sha256_bytes(uploads[FOTO_SLOTS[j]]) : j \in 1..(n - 1) }

\* (variant) the loop leaving before the last slot
dup_local_but_last(uploads) == dup_local_upto(uploads, Len(FOTO_SLOTS) - 1)

\* dup_local once the loop is over
dup_local(uploads) == dup_local_upto(uploads, Len(FOTO_SLOTS))

\* hashes_local once the loop is over
hashes_local(uploads) == [k \in SlotSet |-> sha256_bytes(uploads[k])]

\* (variant) repetidas left empty
repetidas_none(uploads, all_hashes) == {}

\* repetidas = [k for k,h in hashes_local.items() if h in all_hashes]

repetidas(uploads, all_hashes) ==
  { k \in SlotSet : hashes_local(uploads)[k] \in all_hashes }

\* no path: what save_photo returns for a missing file
NoPath == <<>>

\* Image.open(...) succeeds
Decodable(file) == file > 0

\* (variant) save_photo returning None for the "cabina" slot
save_photo_no_cabina(file, subname, week, cedis, unidad_id, clock) ==
  IF file = NoFile \/ subname = "cabina" THEN NoPath
  ELSE <<week, safe_slug(cedis), safe_slug(unidad_id), clock, subname>>

\* save_photo: the path written, EVIDENCE_DIR/week/slug(cedis)/slug(unit)/<now>_<slot>.jpg

save_photo(file, subname, week, cedis, unidad_id, clock) ==
  IF file = NoFile THEN NoPath
  ELSE <<week, safe_slug(cedis), safe_slug(unidad_id), clock, subname>>

\* the record dict the handler hands to save_lavado
BuildRecord(s, id, week, unidad, uploads, fotos_paths, clock) ==
  LET u == { x \in CATALOGO : x.id = unidad /\ x.cedis = CEDIS_of(s) } IN
  [ id               |-> id,
    week             |-> week,
    cedis            |-> CEDIS_of(s),
    supervisorId     |-> SUP_of(s),
    supervisorNombre |-> sup_get(SUP_of(s)).nombre,
    unidadId         |-> unidad,
    unidadLabel      |-> unidad,
    segmento         |-> IF u = {} THEN "" ELSE (CHOOSE x \in u : TRUE).segmento,
    fotos            |-> fotos_paths,
    foto_hashes      |-> hashes_local(uploads),
    ts               |-> isoformat(datetime_now(clock)),
    created_by       |-> auth[s].username ]

\* the locals of a session that runs no handler
NoSub == [week |-> "", record |-> <<>>, txdel |-> {}, pend |-> <<>>, seen |-> {}]

\* What the form of the latest "Guardar" held, in the order the requirements
\* rule on it: "invalid" (no unit, or a photo missing), "equalPair" (the same
\* photo in two slots), "reused" (a photo whose hash a stored record holds),
\* "fresh" (none of these).  It is read off the inputs and the rows, not off
\* the handler's own tests.
Asked(unidad, uploads, st) ==
  IF unidad = "" \/ \E k \in SlotSet : uploads[k] = NoFile THEN "invalid"
  ELSE IF \E j, k \in SlotSet : j # k /\ uploads[j] = uploads[k] THEN "equalPair"
  ELSE IF \E k \in SlotSet : \E r \in st : \E m \in SlotSet :
            json_loads(r.foto_hashes_json)[m] = sha256_bytes(uploads[k])
       THEN "reused"
  ELSE "fresh"

\* the latest step that answered the user or called delete_lavado: the
\* handler, what its form held, what it answered (for "Eliminar": the session
\* that pressed it), the id it deleted by
Step(op, asked, out, arg) == [op |-> op, asked |-> asked, out |-> out, arg |-> arg]

\* a step that did neither
Quiet == Step("", "", "", -1)

\* for a delete_lavado call: whether a row had the id when it was called
HasId(st, lavado_id) == IF \E r \in st : r.id = lavado_id THEN "present" ELSE "absent"

\* (variant) the test for missing photos looking at the first slot only
fotos_faltan_first(uploads) == uploads[FOTO_SLOTS[1]] = NoFile

\* any(uploads[k] is None for k, _ in FOTO_SLOTS)
fotos_faltan(uploads) == \E i \in 1..Len(FOTO_SLOTS) : uploads[FOTO_SLOTS[i]] = NoFile

\* the database is reachable and no session is running the start of main (in
\* Spec every run is taken from the login on)
Booted == [up |-> TRUE, at |-> [s \in Sessions |-> "idle"], shown |-> [s \in Sessions |-> ""]]

\* no get_lavados_week result is held
NoListing == [week |-> "", rows |-> <<>>]

\* load_catalog() has not run (in Spec the roster it returned is CATALOGO)
NotLoaded == [done |-> FALSE, raised |-> FALSE, items |-> <<>>]

\* ----------------------------------------------------------------- actions
Init ==
  /\ store = {}
  /\ files = {}
  /\ now = 0
  /\ nextId = 0
  /\ pc = [s \in Sessions |-> "idle"]
  /\ sub = [s \in Sessions |-> NoSub]
  /\ last = Quiet
  /\ everStored = {}
  /\ deleted = {}
  /\ srcs = <<>>
  /\ loaded = NotLoaded
  /\ listing = NoListing
  /\ boot = Booted

\* "Guardar" of the capture form, up to the call of save_lavado: the
\* validation, the duplicate check inside the submission, the check against
\* photo_hashes_all(), the four save_photo calls and the building of the
\* record.  A file Pillow cannot decode raises in Image.open, before its path
\* is written: the handler ends there and the photos written before it stay.
Guardar(s, fecha_sel, unidad, uploads) ==
  /\ auth[s].role = "supervisor"
  /\ pc[s] = "idle"
  /\ unidad \in unidad_options[s]
  /\ LET WEEK  == WEEK_of[fecha_sel]
         path(k) == save_photo(uploads[k], k, WEEK, CEDIS_of(s), unidad, now)
         bad   == { i \in 1..Len(FOTO_SLOTS) : ~Decodable(uploads[FOTO_SLOTS[i]]) }
         first == CHOOSE i \in bad : \A j \in bad : i <= j
         out   == IF unidad = "" THEN "warn_unidad"
                  ELSE IF fotos_faltan(uploads) THEN "warn_fotos"
                  ELSE IF dup_local(uploads) THEN "DuplicateInSubmission"
                  ELSE IF repetidas(uploads, photo_hashes_all(store)) # {}
                       THEN "DuplicatePhotoReused"
                  ELSE IF bad # {} THEN "PhotoError"
                  ELSE "saved"
     IN  /\ out = "saved" => nextId < MaxId
         /\ files' = CASE out = "saved" -> files \cup ({ path(k) : k \in SlotSet } \ {NoPath})
                       [] out = "PhotoError" ->
                            files \cup { path(FOTO_SLOTS[i]) : i \in 1..(first - 1) }
                       [] OTHER -> files
         /\ pc' = IF out = "saved" THEN [pc EXCEPT ![s] = "save_lavado"] ELSE pc
         /\ sub' = IF out = "saved"
                   THEN [sub EXCEPT ![s] =
                           [NoSub EXCEPT !.record =
                              BuildRecord(s, nextId, WEEK, unidad, uploads,
                                          [k \in SlotSet |-> path(k)], now)]]
                   ELSE sub
         /\ nextId' = IF out = "saved" THEN nextId + 1 ELSE nextId
         /\ last' = Step("Guardar", Asked(unidad, uploads, store), out, -1)
  /\ UNCHANGED <<store, now, everStored, deleted, srcs, loaded, listing, boot>>

\* (variant) the delete statement committed on its own
in_transaction_autocommit(st, ids) == { r \in st : r.id \notin ids }

\* with get_session() as s: what the other sessions see of the table st
\* after s has deleted the rows ids and not yet committed
in_transaction(st, ids) == st

\* save_lavado, the delete statement inside the session's transaction: the
\* rows it marks are those committed at that moment
SaveLavadoDelete(s) ==
  /\ pc[s] = "save_lavado"
  /\ pc' = [pc EXCEPT ![s] = "commit"]
  /\ sub' = [sub EXCEPT ![s].txdel = DeleteMatching(store, sub[s].record)]
  /\ store' = in_transaction(store, DeleteMatching(store, sub[s].record))
  /\ last' = Quiet
  /\ UNCHANGED <<files, now, nextId, everStored, deleted, srcs, loaded, listing, boot>>

\* save_lavado, s.add(row) and s.commit(): the row is checked against the
\* committed rows the transaction has not deleted; a violation raises
\* IntegrityError and the transaction is rolled back
SaveLavadoCommit(s) ==
  /\ pc[s] = "commit"
  /\ LET row  == LavadoRow(sub[s].record, datetime_now(now))
         kept == { r \in store : r.id \notin sub[s].txdel }
     IN  IF UniqueOk(kept, row)
         THEN /\ store' = kept \cup {row}
              /\ everStored' = everStored \cup photo_hashes_all({row})
              /\ last' = Step("SaveLavadoCommit", "", "ok", -1)
         ELSE /\ UNCHANGED <<store, everStored>>
              /\ last' = Step("SaveLavadoCommit", "", "IntegrityError", -1)
  /\ pc' = [pc EXCEPT ![s] = "idle"]
  /\ sub' = [sub EXCEPT ![s] = NoSub]
  /\ UNCHANGED <<files, now, nextId, deleted, srcs, loaded, listing, boot>>

\* (variant) the "Eliminar" button shown on every row
can_delete_always(s, r) == TRUE

\* can_delete = role is supervisor and the row is the session's own
can_delete(s, r) == auth[s].role = "supervisor" /\ r.supervisorId = auth[s].supervisorId

\* reg_semana of the main view: the week's rows, for a supervisor only the
\* rows with the session's supervisorId
reg_semana_of(s, lav) ==
  IF auth[s].role = "supervisor"
  THEN LET own(r) == r.supervisorId = auth[s].supervisorId IN SelectSeq(lav, own)
  ELSE lav

\* the "Eliminar" button of a row of the main view
Eliminar(s, fecha_sel, i) ==
  /\ pc[s] = "idle"
  /\ \E lav \in get_lavados_week(store, WEEK_of[fecha_sel]) :
       LET reg_semana == reg_semana_of(s, lav) IN
       /\ i \in 1..Len(reg_semana)
       /\ can_delete(s, reg_semana[i])
       /\ store' = delete_lavado(store, reg_semana[i].id)
       /\ deleted' = deleted \cup {reg_semana[i].id}
       /\ last' = Step("Eliminar", HasId(store, reg_semana[i].id), s, reg_semana[i].id)
  /\ UNCHANGED <<files, now, nextId, pc, sub, everStored, srcs, loaded, listing, boot>>

\* --------------------------------------------------- the administrator panel
\* the options of the panel's selectboxes and of its search box
AdminCedisChoices == {"all"} \cup { CEDIS_IDS[i] : i \in 1..Len(CEDIS_IDS) }

AdminSupChoices(admin_cedis) ==
  {"all"} \cup { supervisores[i].id :
                 i \in { j \in 1..Len(supervisores) :
                           admin_cedis = "all" \/ norm(supervisores[j].cedis) = norm(admin_cedis) } }

AdminQueries == {"", "a1"}

\* the panel's filters <<CEDIS, Segmento, Supervisor, Buscar>> an administrator
\* sets: at most one of them away from its default
AdminFilters ==
  { f \in AdminCedisChoices \X SegChoices \X AdminSupChoices("all") \X AdminQueries :
      Cardinality({ i \in 1..4 : f[i] # (IF i = 4 THEN "" ELSE "all") }) <= 1 }

\* q in norm(text): the queries of this model are whole unit ids, which occur
\* in no other text
Contains(q, text) == q = text

\* cedis_labels.get(c, c)
cedis_label(c) ==
  CASE c = "cartago" -> "Cartago" [] c = "alajuela" -> "Alajuela" [] OTHER -> c

\* pool: the catalog under the panel's filters
admin_pool(admin_cedis, admin_seg, admin_sup, admin_q) ==
  LET ids_asig == { a.unidadId : a \in { x \in asignaciones : x.supervisorId = admin_sup } } IN
  { u \in CATALOGO :
      /\ admin_cedis # "all" => u.cedis = admin_cedis
      /\ admin_seg # "all" => u.segmento = admin_seg
      /\ (admin_sup # "all" /\ ids_asig # {}) => u.id \in ids_asig
      /\ admin_q # "" => (Contains(admin_q, norm(u.id))
                          \/ Contains(admin_q, norm(cedis_label(u.cedis)))) }

\* lav: the week's rows under the panel's filters

admin_lav(lav, admin_cedis, admin_seg, admin_sup, admin_q) ==
  LET keep(r) ==
        /\ admin_cedis # "all" => r.cedis = admin_cedis
        /\ admin_seg # "all" => r.segmento = admin_seg
        /\ admin_sup # "all" => r.supervisorId = admin_sup
        /\ admin_q # "" => (Contains(admin_q, norm(r.unidadLabel))
                            \/ Contains(admin_q, norm(r.supervisorNombre)))
  IN  SelectSeq(lav, keep)

\* "Eliminar TODO la semana": the script fetches and filters lav, then calls
\* delete_week_everywhere(WEEK_CUR, lav), which deletes the rows of lav one
\* delete_lavado call at a time and then removes the week's folder
EliminarSemana(s, fecha_sel, admin_cedis, admin_seg, admin_sup, admin_q) ==
  /\ auth[s].role = "admin"
  /\ pc[s] = "idle"
  /\ admin_sup \in AdminSupChoices(admin_cedis)
  /\ \E lav0 \in get_lavados_week(store, WEEK_of[fecha_sel]) :
       LET lav == admin_lav(lav0, admin_cedis, admin_seg, admin_sup, admin_q) IN
       sub' = [sub EXCEPT ![s] = [NoSub EXCEPT !.week = WEEK_of[fecha_sel],
                                               !.pend = [i \in 1..Len(lav) |-> lav[i].id],
                                               !.seen = { lav0[i].id : i \in 1..Len(lav0) }]]
  /\ pc' = [pc EXCEPT ![s] = "delete_week"]
  /\ last' = Quiet
  /\ UNCHANGED <<store, files, now, nextId, everStored, deleted, srcs, loaded, listing, boot>>

\* one turn of the loop of delete_week_everywhere: delete_lavado(r["id"])
DeleteWeekStep(s) ==
  /\ pc[s] = "delete_week"
  /\ sub[s].pend # <<>>
  /\ store' = delete_lavado(store, Head(sub[s].pend))
  /\ deleted' = deleted \cup {Head(sub[s].pend)}
  /\ sub' = [sub EXCEPT ![s].pend = Tail(sub[s].pend)]
  /\ last' = Step("DeleteWeekStep", HasId(store, Head(sub[s].pend)), "", Head(sub[s].pend))
  /\ UNCHANGED <<files, now, nextId, pc, everStored, srcs, loaded, listing, boot>>

\* the end of delete_week_everywhere: shutil.rmtree(EVIDENCE_DIR/week)
DeleteWeekRmtree(s) ==
  /\ pc[s] = "delete_week"
  /\ sub[s].pend = <<>>
  /\ files' = { p \in files : p[1] # sub[s].week }
  /\ pc' = [pc EXCEPT ![s] = "idle"]
  /\ sub' = [sub EXCEPT ![s] = NoSub]
  /\ last' = Quiet
  /\ UNCHANGED <<store, now, nextId, everStored, deleted, srcs, loaded, listing, boot>>

\* ------------------------------------------------------------ specification
Next ==
  \/ \E s \in Sessions, fecha_sel \in Dates, form \in FormChoices :
       Guardar(s, fecha_sel, form[1], form[2])
  \/ \E s \in Sessions : SaveLavadoDelete(s)
  \/ \E s \in Sessions : SaveLavadoCommit(s)
  \/ \E s \in Sessions, fecha_sel \in Dates, i \in 1..MaxId : Eliminar(s, fecha_sel, i)
  \/ \E s \in Sessions, fecha_sel \in Dates, f \in AdminFilters :
       EliminarSemana(s, fecha_sel, f[1], f[2], f[3], f[4])
  \/ \E s \in Sessions : DeleteWeekStep(s)
  \/ \E s \in Sessions : DeleteWeekRmtree(s)

Spec == Init /\ [][Next]_vars

\* ------------------------------------------------------- the reconciliation
\* CEDIS_RES of the main view: the supervisor's depot, or the administrator's
\* CEDIS selectbox
CEDIS_RES_of(s, CEDIS) == IF auth[s].role = "supervisor" THEN CEDIS_of(s) ELSE CEDIS

\* lavadas_set = {(r["unidadId"], r["cedis"]) for r in reg_semana}
lavadas_set(reg_semana) ==
  { <<reg_semana[i].unidadId, reg_semana[i].cedis>> : i \in 1..Len(reg_semana) }

\* (variant) faltantes looking (cedis, id) up in a set of (id, cedis)
faltantes_swapped(reg_semana, CEDIS_RES) ==
  { u \in CATALOGO : <<u.cedis, u.id>> \notin lavadas_set(reg_semana) /\ u.cedis = CEDIS_RES }

\* faltantes of the main view
faltantes(reg_semana, CEDIS_RES) ==
  { u \in CATALOGO : <<u.id, u.cedis>> \notin lavadas_set(reg_semana) /\ u.cedis = CEDIS_RES }

\* nolav of the administrator panel
nolav(pool, lav) ==
  { u \in pool : <<u.id, u.cedis>> \notin { <<lav[i].unidadId, lav[i].cedis>> : i \in 1..Len(lav) } }

\* export_week_folders: registros, and the units it files under no_lavados
\* (only_cedis = "" stands for None)
export_registros(registros_semana, only_cedis) ==
  IF only_cedis # ""
  THEN LET here(r) == r.cedis = only_cedis IN SelectSeq(registros_semana, here)
  ELSE registros_semana

export_no_lavados(catalog, registros_semana, only_cedis) ==
  LET registros == export_registros(registros_semana, only_cedis)
      cat == IF only_cedis # "" THEN { u \in catalog : u.cedis = only_cedis } ELSE catalog
      lavadas == { <<registros[i].cedis, registros[i].unidadId>> : i \in 1..Len(registros) }
  IN  { u \in cat : <<u.cedis, u.id>> \notin lavadas }

\* ------------------------------------------------------------------ claims
\* the session whose handler took the step, for a step that moved pc
Moved(s, from, to) == pc[s] = from /\ pc'[s] = to

\* the hash values of a foto_hashes dict
HashesOf(d) == { d[k] : k \in DOMAIN d }

\* C1: after an upsert of record R under key (W, D, U) has succeeded,
\* listByWeek(W) holds exactly one record with unit U and depot D, and that
\* record is R: an earlier record of the key is replaced, not merged with.
C1_UpsertLastWins ==
  [][\A s \in Sessions :
       (Moved(s, "commit", "idle") /\ last'.out = "ok") =>
          LET R == sub[s].record IN
          \A lav \in get_lavados_week(store', R.week) :
             LET hits == { i \in 1..Len(lav) :
                             lav[i].unidadId = R.unidadId /\ lav[i].cedis = R.cedis }
             IN  Cardinality(hits) = 1 /\ \A i \in hits : lav[i] = R]_vars

\* C1, its case: a second upsert has replaced the first record, no
\* delete_lavado call having been made
C1_Witness ==
  /\ last.op = "SaveLavadoCommit" /\ last.out = "ok"
  /\ deleted = {}
  /\ Cardinality(store) = 1
  /\ Cardinality(everStored) = 2 * Len(FOTO_SLOTS)

\* C2: at every moment, under every interleaving of upserts and deletions,
\* the table holds at most one row per (week, depot, unit).
C2_OneRowPerKey ==
  \A r1, r2 \in store :
     (r1.week = r2.week /\ r1.cedis = r2.cedis /\ r1.unidad_id = r2.unidad_id) => r1 = r2

\* C2, its case: two upserts of one key ran interleaved and the second commit
\* was refused
C2_Witness == last.op = "SaveLavadoCommit" /\ last.out = "IntegrityError" /\ store # {}

\* C3: the known-hash set photo_hashes_all() is exactly the union of the hash
\* values of the rows stored at the moment of the call; nothing else is kept.
C3_KnownHashesAreStoredHashes ==
  photo_hashes_all(store) =
    { json_loads(p[1].foto_hashes_json)[p[2]] : p \in store \X SlotSet }

\* C3, its case: rows of both weeks are stored, so the set spans weeks
C3_Witness ==
  /\ Cardinality(store) = 2
  /\ \E r1, r2 \in store : r1.week # r2.week
  /\ Cardinality(photo_hashes_all(store)) = 2 * Len(FOTO_SLOTS)

\* C4: a submission that is complete, has four different photos and carries a
\* photo whose hash a stored record holds (the record of its own key
\* included) is answered DuplicatePhotoReused, and the rows, the evidence
\* files and the running handlers are as before.
C4_ReusedPhotoRejected ==
  [][(last'.op = "Guardar" /\ last'.asked = "reused") =>
       /\ last'.out = "DuplicatePhotoReused"
       /\ store' = store /\ files' = files
       /\ pc' = pc /\ sub' = sub /\ nextId' = nextId]_vars

\* C4, its case: a submission reusing a stored photo was rejected
C4_Witness ==
  /\ last.op = "Guardar" /\ last.asked = "reused" /\ last.out = "DuplicatePhotoReused"
  /\ store # {}

\* C5: the anti-reuse check is permanent: a hash that some stored record has
\* held is never accepted again by a later submission, also after that record
\* was deleted (by id or with its week) or replaced by an upsert.
C5_NeverAcceptedAgain ==
  [][\A s \in Sessions :
       (Moved(s, "idle", "save_lavado") /\ last'.out = "saved") =>
          HashesOf(sub'[s].record.foto_hashes) \cap everStored = {}]_vars

\* C6: a complete submission in which two of the four photos are the same is
\* answered DuplicateInSubmission; no row and no file is written, and the
\* rows (that of the submission's own key included) are as before.
C6_EqualPairRejected ==
  [][(last'.op = "Guardar" /\ last'.asked = "equalPair") =>
       /\ last'.out = "DuplicateInSubmission"
       /\ store' = store /\ files' = files
       /\ nextId' = nextId /\ \A s \in Sessions : pc'[s] = pc[s]]_vars

\* C6, its case: such a submission was rejected while a row was stored
C6_Witness ==
  /\ last.op = "Guardar" /\ last.asked = "equalPair"
  /\ last.out = "DuplicateInSubmission"
  /\ Cardinality(store) = 1

\* a sha256 digest of the bytes of an uploaded picture
IsHash(h) == Len(h) = 2 /\ h[1] = "sha256" /\ h[2] # NoFile

\* C7: every stored row has exactly the four photo entries frente, atras,
\* lado and cabina, each with a path and a content hash that are not null.
C7_FourPhotosPerRow ==
  \A r \in store :
     LET fotos  == json_loads(r.fotos_json)
         hashes == json_loads(r.foto_hashes_json)
     IN  /\ DOMAIN fotos = SlotSet /\ DOMAIN hashes = SlotSet
         /\ Cardinality(SlotSet) = 4
         /\ \A k \in SlotSet : fotos[k] # NoPath /\ IsHash(hashes[k])

\* C7, its case: two rows are stored
C7_Witness == Cardinality(store) = 2 /\ nextId = 2

\* C8: delete_lavado(id) removes the row with that id and no other, changes
\* nothing when no row has the id, and a row deleted by id is in no later
\* result of get_lavados_week.
C8_DeleteByIdFrame ==
  [][(last'.op \in {"Eliminar", "DeleteWeekStep"}) =>
       /\ \A r \in store : r.id # last'.arg => r \in store'
       /\ \A r \in store' : r \in store /\ r.id # last'.arg
       /\ last'.asked = "absent" => store' = store
       /\ \A W \in Weeks : \A lav \in get_lavados_week(store', W) :
            \A i \in 1..Len(lav) : lav[i].id \notin deleted']_vars

\* C8, its case: delete_lavado was called with an id no row has, another row
\* being stored
C8_Witness ==
  /\ last.op = "DeleteWeekStep" /\ last.asked = "absent"
  /\ store # {}

\* C9: "Eliminar TODO la semana" for week W removes every row of week W,
\* whatever the panel's filters are, and no row of another week.
C9_DeleteWeekRemovesWholeWeek ==
  [][\A s \in Sessions :
       /\ Moved(s, "delete_week", "idle") =>
            \A r \in store' : r.id \notin sub[s].seen
       /\ (pc[s] = "delete_week" /\ sub'[s].pend # sub[s].pend) =>
            \A r \in store \ store' : r.week = sub[s].week]_vars

\* washed and notWashed split the (unit id, depot) pairs of the catalog units
\* of depot D
Reconciles(washed, notWashed, D) ==
  /\ washed \cap notWashed = {}
  /\ washed \cup notWashed = { <<u.id, u.cedis>> : u \in { x \in CATALOGO : x.cedis = D } }

\* <<unit id, depot>> of catalog units
PairsOf(units) == { <<u.id, u.cedis>> : u \in units }

\* C10: for every week W and depot D, in the main view, in the administrator
\* panel and in the export, the washed set of D and the not-washed set are
\* disjoint and together are the (unit id, depot) pairs of the catalog units
\* of depot D.
C10_ReconciliationComplete ==
  \A W \in Weeks : \A lav0 \in get_lavados_week(store, W) :
    \A D \in { CEDIS_IDS[i] : i \in 1..Len(CEDIS_IDS) } :
      /\ \A s \in Sessions :
           CEDIS_RES_of(s, D) = D =>
             LET reg_semana == reg_semana_of(s, lav0) IN
             Reconciles({ p \in lavadas_set(reg_semana) : p[2] = D },
                        PairsOf(faltantes(reg_semana, D)), D)
      /\ LET lav == admin_lav(lav0, D, "all", "all", "") IN
         Reconciles({ <<lav[i].unidadId, lav[i].cedis>> : i \in 1..Len(lav) },
                    PairsOf(nolav(admin_pool(D, "all", "all", ""), lav)), D)
      /\ LET lav == admin_lav(lav0, D, "all", "all", "")
             registros == export_registros(lav, D)
         IN  Reconciles({ <<registros[i].unidadId, registros[i].cedis>> : i \in 1..Len(registros) },
                        PairsOf(export_no_lavados(CATALOGO, lav, D)), D)

\* C10, its case: depot alajuela has a washed and a not-washed unit in week
\* 2025-W10, and a row of another supervisor's
C10_Witness ==
  /\ \E r \in store : r.week = "2025-W10" /\ r.cedis = "alajuela"
                      /\ r.supervisor_id = "sup-cristian-bolanos"
  /\ \E u \in CATALOGO : u.cedis = "alajuela" /\
        \A r \in store : r.unidad_id # u.id

\* the table holds a row of week W for the catalog unit u under its depot
HasRecord(W, u) ==
  \E r \in store : r.week = W /\ r.cedis = u.cedis /\ r.unidad_id = u.id

\* C11: in the main view (the supervisor's included) and in the administrator
\* panel under any of its filters, a catalog unit that passes the filters is
\* listed as not washed in week W if and only if the table holds no row for
\* (W, its depot, its id), whoever stored it.
C11_NotWashedIffNoRecord ==
  \A W \in Weeks : \A lav0 \in get_lavados_week(store, W) :
    /\ \A s \in Sessions : \A D \in { CEDIS_IDS[i] : i \in 1..Len(CEDIS_IDS) } :
         LET CEDIS_RES == CEDIS_RES_of(s, D) IN
         \A u \in { x \in CATALOGO : x.cedis = CEDIS_RES } :
            u \in faltantes(reg_semana_of(s, lav0), CEDIS_RES) <=> ~HasRecord(W, u)
    /\ \A f \in AdminFilters :
         LET pool == admin_pool(f[1], f[2], f[3], f[4])
             lav  == admin_lav(lav0, f[1], f[2], f[3], f[4])
         IN  \A u \in pool : u \in nolav(pool, lav) <=> ~HasRecord(W, u)

\* ------------------------------------------------------------- load_catalog
\* bounds of the loader's inputs: the data files read, the elements of one
MaxSources == 2
MaxEntries == 2

\* An element of a data file: a JSON object with the keys the loader reads
\* ("" for a key that is absent or empty), or something that is no object
Unit(id, placa, cedis, segmento, tipo, negocio) ==
  [obj |-> TRUE, id |-> id, placa |-> placa, cedis |-> cedis,
   segmento |-> segmento, tipo |-> tipo, negocio |-> negocio]

NoObject == [Unit("", "", "", "", "", "") EXCEPT !.obj = FALSE]

\* the elements the data files of this model are made of
Elements ==
  { Unit("A1", "",   "alajuela", "graneles", "Granel", ""),
    Unit("A1", "",   "Alajuela", "",         "",       "Hinos"),
    Unit("",   "A1", "alajuela", "",         "",       "Granel"),
    Unit("C1", "",   "cartago",  "hinos",    "",       ""),
    Unit("C1", "",   "zona-x",   "",         "",       "Varios"),
    Unit("C1", "",   "cartago",  "",         "Cisterna", "Cilindros"),
    Unit("",   "",   "alajuela", "hinos",    "Hino",   ""),
    Unit("A1", "",   "",         "hinos",    "Hino",   ""),
    NoObject }

\* A data file: absent, not JSON, a JSON object, or a JSON list
File(kind, arr) == [kind |-> kind, arr |-> arr]

Files ==
  { File(k, <<>>) : k \in {"missing", "malformed", "object"} }
  \cup { File("list", arr) : arr \in UNION { [1..n -> Elements] : n \in 0..MaxEntries } }

\* load_json: None (here FALSE as ok) for a file that cannot be opened or parsed
load_json(file) ==
  IF file.kind \in {"missing", "malformed"} THEN [ok |-> FALSE, value |-> File("", <<>>)]
  ELSE [ok |-> TRUE, value |-> file]

\* needle in text, on the words and texts of this model
InText(needle, text) == \E suffix \in {"", "s", "es"} : text = needle \o suffix

\* cedis_id_from_any: the id of the first CONFIG depot whose id or name has
\* the norm of val, else that norm
cedis_id_from_any(val) ==
  LET key  == norm(val)
      hits == { i \in 1..Len(CEDIS_IDS) :
                  norm(CEDIS_IDS[i]) = key \/ norm(cedis_label(CEDIS_IDS[i])) = key }
  IN  IF hits = {} THEN key
      ELSE CEDIS_IDS[CHOOSE i \in hits : \A j \in hits : i <= j]

\* segment_from_negocio: <<segmento, tipo>>
segment_from_negocio(neg) ==
  LET n == norm(neg) IN
  IF InText("granel", n) THEN <<"graneles", "Granel">>
  ELSE IF InText("cilindro", n) \/ InText("hino", n) THEN <<"hinos", "Hino">>
  ELSE <<"otros", "Otro">>

\* the body of the loop over a file's elements: the item appended for u, or
\* nothing when u has no id or no depot
catalog_item(u) ==
  LET id_     == IF u.id # "" THEN u.id ELSE u.placa
      cedis   == cedis_id_from_any(u.cedis)
      fromNeg == segment_from_negocio(u.negocio)
      segmento == IF u.segmento # "" THEN u.segmento ELSE fromNeg[1]
      tipo0   == IF u.segmento # "" THEN u.tipo ELSE fromNeg[2]
      tipo    == IF tipo0 # "" THEN tipo0
                 ELSE IF segmento = "hinos" THEN "Hino"
                 ELSE IF segmento = "graneles" THEN "Granel" ELSE "Otro"
  IN  IF id_ = "" \/ cedis = "" THEN <<>>
      ELSE << [id |-> id_, cedis |-> cedis, segmento |-> segmento, tipo |-> tipo] >>

\* the elements the loops of load_catalog visit, in order: those of every
\* file that load_json gives as a list
RECURSIVE visited(_, _)
visited(sources, n) ==
  IF n = 0 THEN <<>>
  ELSE LET arr == load_json(sources[n]) IN
       visited(sources, n - 1)
         \o (IF arr.ok /\ arr.value.kind = "list" THEN arr.value.arr ELSE <<>>)

\* items after the first n visited elements
RECURSIVE items_upto(_, _)
items_upto(us, n) ==
  IF n = 0 THEN <<>> ELSE items_upto(us, n - 1) \o catalog_item(us[n])

\* (variant) dedup keeping the first item of a key
RECURSIVE dedup_first(_, _)
dedup_first(items, n) ==
  IF n = 0 THEN <<>>
  ELSE LET d == dedup_first(items, n - 1)
           u == items[n]
           at == { i \in 1..Len(d) : d[i].id = u.id /\ d[i].cedis = u.cedis }
       IN  IF at = {} THEN Append(d, u) ELSE d

\* dedup[(u["id"], u["cedis"])] = u over the first n items, as the list of
\* the dict's values: a key keeps its place and takes the new value
RECURSIVE dedup(_, _)
dedup(items, n) ==
  IF n = 0 THEN <<>>
  ELSE LET d == dedup(items, n - 1)
           u == items[n]
           at == { i \in 1..Len(d) : d[i].id = u.id /\ d[i].cedis = u.cedis }
       IN  IF at = {} THEN Append(d, u)
           ELSE [i \in 1..Len(d) |-> IF i \in at THEN u ELSE d[i]]

\* load_catalog(): the list returned, or the exception that leaves it
\* (u.get raises AttributeError on an element that is no object)
load_catalog(sources) ==
  LET us == visited(sources, Len(sources)) IN
  IF \E i \in 1..Len(us) : ~us[i].obj
  THEN [done |-> TRUE, raised |-> TRUE, items |-> <<>>]
  ELSE LET items == items_upto(us, Len(us)) IN
       [done |-> TRUE, raised |-> FALSE, items |-> dedup(items, Len(items))]

\* the loader alone: any data files, then one call of load_catalog()
InitLoad ==
  /\ store = {} /\ files = {} /\ now = 0 /\ nextId = 0
  /\ pc = [s \in Sessions |-> "idle"]
  /\ sub = [s \in Sessions |-> NoSub]
  /\ last = Quiet /\ everStored = {} /\ deleted = {}
  /\ srcs \in UNION { [1..n -> Files] : n \in 1..MaxSources }
  /\ loaded = NotLoaded
  /\ listing = NoListing
  /\ boot = Booted

LoadCatalog ==
  /\ ~loaded.done
  /\ loaded' = load_catalog(srcs)
  /\ UNCHANGED <<store, files, now, nextId, pc, sub, last, everStored, deleted, srcs, listing, boot>>

NextLoad == LoadCatalog

LoadSpec == InitLoad /\ [][NextLoad]_vars

\* the elements of the data files that hold a JSON list, in load order
Listed == visited(srcs, Len(srcs))

\* the positions of Listed that carry a unit id and a depot
Occurrences == { i \in 1..Len(Listed) : catalog_item(Listed[i]) # <<>> }

SameKey(a, b) == a.id = b.id /\ a.cedis = b.cedis

\* C12: the catalog load_catalog returns has exactly one entry per
\* (unit id, depot) pair found in the sources, and it is the entry derived
\* from the pair's last occurrence in load order.
C12_CatalogDedupLastWins ==
  (loaded.done /\ ~loaded.raised) =>
     LET out == loaded.items
         item(i) == catalog_item(Listed[i])[1]
     IN  /\ \A i \in Occurrences :
              LET same  == { j \in Occurrences : SameKey(item(j), item(i)) }
                  final == CHOOSE j \in same : \A k \in same : k <= j
                  at    == { k \in 1..Len(out) : SameKey(out[k], item(i)) }
              IN  Cardinality(at) = 1 /\ \A k \in at : out[k] = item(final)
         /\ \A k \in 1..Len(out) : \E i \in Occurrences : SameKey(out[k], item(i))

\* C12, its case: two files list the same (unit id, depot) with different
\* segments, and the catalog was returned
C12_Witness ==
  /\ loaded.done /\ ~loaded.raised
  /\ Len(srcs) = 2 /\ srcs[1].kind = "list" /\ srcs[2].kind = "list"
  /\ \E i \in 1..Len(srcs[1].arr), j \in 1..Len(srcs[2].arr) :
       LET a == catalog_item(srcs[1].arr[i])
           b == catalog_item(srcs[2].arr[j])
       IN  a # <<>> /\ b # <<>> /\ SameKey(a[1], b[1]) /\ a[1] # b[1]

\* C13: a data file that is missing, malformed or not a list contributes no
\* unit and does not stop the load: load_catalog never raises, the units of
\* the other files are merged, and with no data the roster is empty.
C13_LoadNeverRaises ==
  loaded.done =>
     /\ ~loaded.raised
     /\ { <<loaded.items[k].id, loaded.items[k].cedis>> : k \in 1..Len(loaded.items) }
          = { <<catalog_item(Listed[i])[1].id, catalog_item(Listed[i])[1].cedis>> :
                i \in Occurrences }

\* ------------------------------------------------- db.py called on its own
\* bounds: the save_lavado calls of one behaviour, the seconds the clock runs
MaxSaves == 3
MaxClock == 2

\* the fraction of a second utcnow() can carry
Micros == {0, 500000}

\* what a payload's "ts" can be: the caller's datetime.now() as text, or none
\* (sec < 0), for which _parse_ts takes utcnow()
TsChoices(clock) == { isoformat(datetime_now(clock)), [sec |-> -1, micro |-> 0, zone |-> ""] }

\* a payload for unit u as the capture form builds it, but for its "ts"
DbRecord(id, week, u, ts) ==
  [ id               |-> id,
    week             |-> week,
    cedis            |-> u.cedis,
    supervisorId     |-> "",
    supervisorNombre |-> "",
    unidadId         |-> u.id,
    unidadLabel      |-> u.id,
    segmento         |-> u.segmento,
    fotos            |-> [k \in SlotSet |-> save_photo(Roll(id)[k], k, week, u.cedis, u.id, 0)],
    foto_hashes      |-> hashes_local(Roll(id)),
    ts               |-> ts,
    created_by       |-> "" ]

\* save_lavado(record) with no other transaction running
DbSave(week, u, ts, micro) ==
  /\ nextId < MaxSaves
  /\ LET record == DbRecord(nextId, week, u, ts)
         row    == LavadoRow(record, [sec |-> now, micro |-> micro])
         kept   == { r \in store : r.id \notin DeleteMatching(store, record) }
     IN  /\ UniqueOk(kept, row)
         /\ store' = kept \cup {row}
  /\ nextId' = nextId + 1
  /\ listing' = NoListing
  /\ UNCHANGED <<files, now, pc, sub, last, everStored, deleted, srcs, loaded, boot>>

\* delete_lavado(lavado_id)
DbDelete(lavado_id) ==
  /\ \E r \in store : r.id = lavado_id
  /\ store' = delete_lavado(store, lavado_id)
  /\ listing' = NoListing
  /\ UNCHANGED <<files, now, nextId, pc, sub, last, everStored, deleted, srcs, loaded, boot>>

\* get_lavados_week(week)
DbList(week) ==
  /\ listing = NoListing
  /\ \E lav \in get_lavados_week(store, week) : listing' = [week |-> week, rows |-> lav]
  /\ UNCHANGED <<store, files, now, nextId, pc, sub, last, everStored, deleted, srcs, loaded, boot>>

\* a second passes
DbTick ==
  /\ now < MaxClock
  /\ now' = now + 1
  /\ listing' = NoListing
  /\ UNCHANGED <<store, files, nextId, pc, sub, last, everStored, deleted, srcs, loaded, boot>>

NextDb ==
  \/ \E week \in Weeks, u \in CATALOGO, ts \in TsChoices(now), micro \in Micros :
       DbSave(week, u, ts, micro)
  \/ \E lavado_id \in 0..(MaxSaves - 1) : DbDelete(lavado_id)
  \/ \E week \in Weeks : DbList(week)
  \/ DbTick

DbSpec == Init /\ [][NextDb]_vars

\* C14: get_lavados_week(week) returns all the rows of the table whose week
\* is the argument, each once, and no other, latest first: of two
\* consecutive records the first has a ts at or after that of the second.
C14_ListByWeekOrdered ==
  listing # NoListing =>
     LET lav == listing.rows IN
     /\ { lav[i].id : i \in 1..Len(lav) } = { r.id : r \in { x \in store : x.week = listing.week } }
     /\ Len(lav) = Cardinality({ lav[i].id : i \in 1..Len(lav) })
     /\ \A i \in 1..Len(lav) : lav[i].week = listing.week
     /\ \A i \in 1..(Len(lav) - 1) : TsGE(lav[i].ts, lav[i + 1].ts)

\* C14, its case: a listing of two records stored in different seconds, while
\* the table holds a record of another week
C14_Witness ==
  /\ Len(listing.rows) = 2
  /\ listing.rows[1].ts.sec > listing.rows[2].ts.sec
  /\ \E r \in store : r.week # listing.week

\* C15: a submission with no unit selected or with a photo missing is
\* answered with a validation warning and changes nothing: no row is
\* inserted or deleted, no file is written, no upsert is started.
C15_InvalidSubmissionRejected ==
  [][(last'.op = "Guardar" /\ last'.asked = "invalid") =>
       /\ last'.out \in {"warn_unidad", "warn_fotos"}
       /\ store' = store /\ files' = files /\ nextId' = nextId
       /\ pc' = pc /\ sub' = sub /\ everStored' = everStored]_vars

\* C15, its case: a submission with a photo missing was turned away while
\* the table and the photo tree held data
C15_Witness ==
  /\ last.op = "Guardar" /\ last.asked = "invalid" /\ last.out = "warn_fotos"
  /\ store # {} /\ files # {}

\* C16: an administrator neither captures nor deletes washes: no step of an
\* administrator's session inserts, replaces or deletes a row.
C16_AdminNeverChangesRows ==
  [][\A s \in Sessions :
       (auth[s].role = "admin" /\ (pc'[s] # pc[s] \/ sub'[s] # sub[s])) =>
          store' = store]_vars

\* C17: every stored row is for a unit of the catalog under the row's depot.
C17_RowsAreCatalogUnits ==
  \A r \in store : \E u \in CATALOGO : u.id = r.unidad_id /\ u.cedis = r.cedis

\* C17, its case: both supervisors of depot alajuela have a row stored
C17_Witness ==
  /\ \E r \in store : r.supervisor_id = "sup-erick-valerin" /\ r.cedis = "alajuela"
  /\ \E r \in store : r.supervisor_id = "sup-cristian-bolanos" /\ r.cedis = "alajuela"

\* a row and a payload have the same natural key
KeyOf(r, record) ==
  r.week = record.week /\ r.cedis = record.cedis /\ r.unidad_id = record.unidadId

\* C18: when two upserts of one key have both run their delete statement
\* before either inserts, the first commit goes through and the second is
\* refused by the unique constraint: it ends in IntegrityError, raised to its
\* caller, and the table is as the first left it.
C18_RacingUpsertOneCommits ==
  [][\A s \in Sessions :
       Moved(s, "commit", "idle") =>
          LET record == sub[s].record
              since  == { r \in store : KeyOf(r, record) /\ r.id \notin sub[s].txdel }
          IN  IF since # {}
              THEN last'.out = "IntegrityError" /\ store' = store
              ELSE /\ last'.out = "ok"
                   /\ \A r \in store' : KeyOf(r, record) <=> r.id = record.id]_vars

\* C18, its case: the second of two racing upserts has been refused and the
\* table holds the row of the first
C18_Witness ==
  /\ last.op = "SaveLavadoCommit" /\ last.out = "IntegrityError"
  /\ Cardinality(store) = 1 /\ nextId = 2
  /\ \A s \in Sessions : pc[s] = "idle"

\* C19: while an upsert replaces the record of a key, the other sessions
\* never find the key without a record: a key loses its record only by
\* delete_lavado, and the old row is visible until the new one is.
C19_NoTransientGap ==
  [][(last'.op \notin {"Eliminar", "DeleteWeekStep"}) =>
       \A r \in store : \E r2 \in store' :
          r2.week = r.week /\ r2.cedis = r.cedis /\ r2.unidad_id = r.unidad_id]_vars

\* C19, its case: an upsert has deleted the old row of its key in its
\* transaction and has not committed; the old row is still in the table
C19_Witness ==
  \E s \in Sessions :
     /\ pc[s] = "commit" /\ sub[s].txdel # {}
     /\ \E r \in store : r.id \in sub[s].txdel

\* C20: no content hash is held twice in the table, in whatever way the
\* submissions of the sessions interleave.
C20_StoredHashesDistinct ==
  \A r1, r2 \in store : \A k1, k2 \in SlotSet :
     json_loads(r1.foto_hashes_json)[k1] = json_loads(r2.foto_hashes_json)[k2]
        => (r1 = r2 /\ k1 = k2)

\* C21: a submission that passed both duplicate checks and fails afterwards
\* (save_photo cannot store a photo, or save_lavado raises) leaves no photo
\* file of its own in the tree and leaves the table unchanged.
C21_FailedSubmissionLeavesNothing ==
  [][/\ (last'.op = "Guardar" /\ last'.out = "PhotoError") =>
          (files' = files /\ store' = store)
     /\ \A s \in Sessions :
          (Moved(s, "commit", "idle") /\ last'.out = "IntegrityError") =>
             /\ store' = store
             /\ \A k \in SlotSet : sub[s].record.fotos[k] \notin files']_vars

\* C22: the "Eliminar" button of a record deletes only for a session of role
\* supervisor whose supervisor id is the record's: no other supervisor's
\* session and no administrator's deletes a record through it.
C22_DeleteOnlyByOwner ==
  [][(last'.op = "Eliminar") =>
       LET s == last'.out IN
       /\ auth[s].role = "supervisor"
       /\ \A r \in store : r.id = last'.arg => r.supervisor_id = auth[s].supervisorId]_vars

\* C22, its case: a supervisor has deleted a record of theirs while a record
\* of the other supervisor stays stored
C22_Witness ==
  /\ last.op = "Eliminar" /\ last.asked = "present"
  /\ \E r \in store : r.supervisor_id # auth[last.out].supervisorId

\* C23: save_photo never writes to a path written before: the photo tree
\* only grows, and no stored photo is overwritten.
C23_PhotoPathsNeverReused ==
  [][\A s \in Sessions :
       (Moved(s, "idle", "save_lavado") /\ last'.out = "saved") =>
          \A k \in SlotSet : sub'[s].record.fotos[k] \notin files]_vars

\* the segment and the type the requirements give a business-line label
LabelSegment(negocio) ==
  IF negocio \in {"Granel"} THEN "graneles"
  ELSE IF negocio \in {"Hinos", "Cilindros"} THEN "hinos"
  ELSE "otros"

SegmentType(segmento) ==
  IF segmento = "hinos" THEN "Hino" ELSE IF segmento = "graneles" THEN "Granel" ELSE "Otro"

\* C24: a catalog entry takes the raw unit's segment, or with none the
\* segment of its business-line label ('granel', else 'cilindro' or 'hino',
\* else other); it keeps the raw unit's type and derives one only when the
\* raw unit has none.
C24_SegmentAndTypeDerivation ==
  (loaded.done /\ ~loaded.raised) =>
     \A k \in 1..Len(loaded.items) :
        LET e     == loaded.items[k]
            same  == { i \in Occurrences : SameKey(catalog_item(Listed[i])[1], e) }
            raw   == Listed[CHOOSE i \in same : \A j \in same : j <= i]
        IN  /\ e.segmento = (IF raw.segmento # "" THEN raw.segmento
                             ELSE LabelSegment(raw.negocio))
            /\ e.tipo = (IF raw.tipo # "" THEN raw.tipo ELSE SegmentType(e.segmento))

\* ------------------------------------------------------- the start of main
\* init_db(): create_all connects to the database; the exception it raises
\* ("" for none)
init_db(up) == IF up THEN "" ELSE "OperationalError"

\* Python's None
None == <<>>

\* db.healthcheck(): runs SELECT 1 and has no return statement
healthcheck(up) ==
  IF up THEN [raised |-> "", value |-> None]
  ELSE [raised |-> "OperationalError", value |-> None]

\* ok, msg = value: the exception the unpacking raises ("" for none)
unpack_pair(value) == IF Len(value) = 2 THEN "" ELSE "TypeError"

\* boot_guard(main): a session's script starts (first load or rerun)
BootRun(s) ==
  /\ boot.at[s] \in {"idle", "login", "failed"}
  /\ boot' = [boot EXCEPT !.at[s] = "init_db", !.shown[s] = ""]
  /\ UNCHANGED <<store, files, now, nextId, pc, sub, last, everStored, deleted, srcs, loaded, listing>>

\* main: init_db(); an exception goes to boot_guard, which shows it and stops
BootInitDb(s) ==
  /\ boot.at[s] = "init_db"
  /\ boot' = IF init_db(boot.up) = ""
             THEN [boot EXCEPT !.at[s] = "healthcheck"]
             ELSE [boot EXCEPT !.at[s] = "failed", !.shown[s] = init_db(boot.up)]
  /\ UNCHANGED <<store, files, now, nextId, pc, sub, last, everStored, deleted, srcs, loaded, listing>>

\* main: ok, msg = healthcheck(), the sidebar's "Estado BD", and on to
\* require_login; an exception goes to boot_guard, which shows it and stops
BootHealthcheck(s) ==
  /\ boot.at[s] = "healthcheck"
  /\ LET res == healthcheck(boot.up)
         exc == IF res.raised # "" THEN res.raised ELSE unpack_pair(res.value)
     IN  boot' = IF exc = ""
                 THEN [boot EXCEPT !.at[s] = "login",
                                   !.shown[s] = IF res.value[1] THEN "success" ELSE "error"]
                 ELSE [boot EXCEPT !.at[s] = "failed", !.shown[s] = exc]
  /\ UNCHANGED <<store, files, now, nextId, pc, sub, last, everStored, deleted, srcs, loaded, listing>>

\* the database becomes unreachable, or reachable again
DbToggle ==
  /\ boot' = [boot EXCEPT !.up = ~boot.up]
  /\ UNCHANGED <<store, files, now, nextId, pc, sub, last, everStored, deleted, srcs, loaded, listing>>

NextBoot ==
  \/ \E s \in Sessions : BootRun(s)
  \/ \E s \in Sessions : BootInitDb(s)
  \/ \E s \in Sessions : BootHealthcheck(s)
  \/ DbToggle

BootSpec == Init /\ [][NextBoot]_vars

\* C25: at its start main runs init_db, takes (ok, message) from healthcheck,
\* shows it in the sidebar and goes on to the login, with the database
\* reachable (ok true) and with it unreachable (ok false, shown, not fatal).
C25_StartupReachesLogin ==
  [][\A s \in Sessions :
       /\ (boot.at[s] = "init_db" /\ boot'.at[s] # "init_db") => boot'.at[s] = "healthcheck"
       /\ (boot.at[s] = "healthcheck" /\ boot'.at[s] # "healthcheck") =>
             /\ boot'.at[s] = "login"
             /\ boot'.shown[s] = (IF boot.up THEN "success" ELSE "error")]_vars
====
